---- MODULE Spec2Model ----
(***************************************************************************)
(* Cluster state engine of kubesim: the NodeManager registry               *)
(* (api-server/src/nodeManager.js), the PodScheduler first-fit policy,     *)
(* the HealthMonitor sweep and the HTTP handlers that drive them           *)
(* (api-server/src/models.js).                                             *)
(*                                                                         *)
(* The server is a single Node.js process: every synchronous handler and   *)
(* every timer callback runs to completion, so each is one action.         *)
(*                                                                         *)
(* Time is in seconds.  A Date is [kind |-> "Date", t |-> seconds]; the    *)
(* ISO string that repair-complete stores in lastHeartbeat is              *)
(* [kind |-> "String", t |-> seconds], because the code treats the two     *)
(* differently (comparison with a Date, .toISOString()).                   *)
(***************************************************************************)
EXTENDS Integers, Sequences, FiniteSets, TLC

\* ------------------------------------------------------------------ bounds
MaxNodes == 2          \* nodes ever registered
MaxPods == 2           \* pods ever created (pod ids are fresh uuids)
MaxCores == 2          \* largest integer cpu_cores / cpu_required supplied
MaxTime == 91          \* the clock stops advancing here
MaxSteps == 5          \* callbacks the event loop runs
MaxReported == 1       \* pods one heartbeat reports

\* ------------------------------------------------------- program constants
UnhealthyTimeout == 90     \* 90000 ms
SweepPeriod == 30          \* 30000 ms
PodStartDelay == 5         \* 5000 ms
TickStep == UnhealthyTimeout + 1

Null == 0                  \* JavaScript null / undefined for ids

\* ------------------------------------------------------------------ inputs
\* cpu_cores of POST /nodes, in halves: 0, 0.5 and MaxCores
CpuCoresInputs == {0, 1, 2 * MaxCores}
\* cpu_required of POST /pods and cpuRequired of addPod: positive integers
CpuRequiredInputs == 1..MaxCores
\* node ids a caller may name: the container ids, and 0 which is never one
NodeIdInputs == 0..MaxNodes
PodIdInputs == 1..MaxPods
\* pod statuses a heartbeat may carry; "report" is the object
\* {status, cpuUsage, ...} that the node agent sends as the status
HeartbeatStatuses == {"running", "report"}

VARIABLES
  nodes,                \* NodeManager.nodes : Map nodeId -> Node
  nodeOrder,            \* insertion order of the keys of NodeManager.nodes
  pods,                 \* NodeManager.pods : Map podId -> pod
  recoveryOperations,   \* NodeManager.recoveryOperations : Map podId -> op
  podCount,             \* number of pod ids handed out so far
  timers,               \* pending setTimeout callbacks of addPod
  now,                  \* the wall clock
  steps,                \* callbacks the event loop has run
  lastResult,           \* what the last handler / call returned
  provisioning,         \* POST /nodes requests waiting on docker
  agent                 \* a NodeSimulator: retry counter, clock, timers

vars == <<nodes, nodeOrder, pods, recoveryOperations, podCount, timers,
          now, steps, lastResult, provisioning, agent>>

\* ---------------------------------------------------------------- helpers
newDate(t) == [kind |-> "Date", t |-> t]
toISOString(t) == [kind |-> "String", t |-> t]
\* a property that has not been assigned
undefined == [kind |-> "undefined", t |-> 0]

\* the NodeManager object as a value, so that its methods are operators
NM == [nodes |-> nodes, nodeOrder |-> nodeOrder, pods |-> pods,
       recoveryOperations |-> recoveryOperations]

SetNM(m) ==
  /\ nodes' = m.nodes
  /\ nodeOrder' = m.nodeOrder
  /\ pods' = m.pods
  /\ recoveryOperations' = m.recoveryOperations

Node(id, cpuCores, t) ==
  [id |-> id, cpuCores |-> cpuCores, availableCores |-> cpuCores,
   lastHeartbeat |-> newDate(t), status |-> "healthy", pods |-> <<>>]

\* Set.delete / Set.add on a node's pod set, kept in insertion order
SetDelete(s, x) == SelectSeq(s, LAMBDA y : y # x)
SetAdd(s, x) == IF \E i \in 1..Len(s) : s[i] = x THEN s ELSE Append(s, x)
SetOf(s) == {s[i] : i \in 1..Len(s)}

\* Number(x) of a cpu_cores input given in halves is x / 2; parseInt
\* truncates it
parseInt(halves) == halves \div 2

\* What a handler answered (code is the HTTP status; 0 when the step sends
\* no response) or what a direct NodeManager call returned (ret is "true",
\* "false", "null", or "threw" when it raised).
Result(op, code, ret) ==
  [op |-> op, code |-> code, ret |-> ret, nodeId |-> Null,
   toNodeId |-> Null, podId |-> Null, recoveryOperations |-> <<>>, evacuatedPods |-> <<>>, remainingPods |-> 0]

\* -------------------------------------------------------------- NodeManager
addNode(m, nodeId, cpuCores, t) ==
  [m EXCEPT !.nodes = (nodeId :> Node(nodeId, cpuCores, t)) @@ m.nodes,
            !.nodeOrder = IF nodeId \in DOMAIN m.nodes
                          THEN m.nodeOrder ELSE Append(m.nodeOrder, nodeId)]

\* true when getNodes raises a TypeError: lastHeartbeat is truthy and is
\* not a Date, so it has no toISOString
getNodesThrows(m) ==
  \E n \in DOMAIN m.nodes : m.nodes[n].lastHeartbeat.kind # "Date"

\* recordHeartbeat that puts a pod it has already updated back to pending
recordHeartbeat_Restart(m, nodeId, podStatuses, t) ==
  IF nodeId \notin DOMAIN m.nodes
  THEN [m |-> m, ret |-> FALSE]
  ELSE [m |-> [m EXCEPT
                 !.nodes[nodeId].lastHeartbeat = newDate(t),
                 !.nodes[nodeId].status = "healthy",
                 !.pods = [p \in DOMAIN m.pods |->
                            IF p \in DOMAIN podStatuses
                            THEN [m.pods[p] EXCEPT
                                    !.status =
                                       IF m.pods[p].lastUpdated = undefined
                                       THEN podStatuses[p] ELSE "pending",
                                    !.lastUpdated = newDate(t)]
                            ELSE m.pods[p]]],
        ret |-> TRUE]

recordHeartbeat(m, nodeId, podStatuses, t) ==
  IF nodeId \notin DOMAIN m.nodes
  THEN [m |-> m, ret |-> FALSE]
  ELSE [m |-> [m EXCEPT
                 !.nodes[nodeId].lastHeartbeat = newDate(t),
                 !.nodes[nodeId].status = "healthy",
                 !.pods = [p \in DOMAIN m.pods |->
                            IF p \in DOMAIN podStatuses
                            THEN [m.pods[p] EXCEPT
                                    !.status = podStatuses[p],
                                    !.lastUpdated = newDate(t)]
                            ELSE m.pods[p]]],
        ret |-> TRUE]

\* addPod without the capacity test
addPod_NoCapacityCheck(m, nodeId, podId, cpuRequired, t) ==
  IF nodeId \notin DOMAIN m.nodes
  THEN [m |-> m, ret |-> FALSE]
  ELSE [m |-> [m EXCEPT
                 !.pods = (podId :> [id |-> podId, nodeId |-> nodeId,
                                     cpuRequired |-> cpuRequired,
                                     status |-> "pending",
                                     lastUpdated |-> undefined]) @@ m.pods,
                 !.nodes[nodeId].availableCores = @ - cpuRequired,
                 !.nodes[nodeId].pods = SetAdd(@, podId)],
        ret |-> TRUE]

addPod(m, nodeId, podId, cpuRequired, t) ==
  IF nodeId \notin DOMAIN m.nodes
     \/ m.nodes[nodeId].availableCores < cpuRequired
  THEN [m |-> m, ret |-> FALSE]
  ELSE [m |-> [m EXCEPT
                 !.pods = (podId :> [id |-> podId, nodeId |-> nodeId,
                                     cpuRequired |-> cpuRequired,
                                     status |-> "pending",
                                     lastUpdated |-> undefined]) @@ m.pods,
                 !.nodes[nodeId].availableCores = @ - cpuRequired,
                 !.nodes[nodeId].pods = SetAdd(@, podId)],
        ret |-> TRUE]

getPodsOnNode(m, nodeId) ==
  IF nodeId \notin DOMAIN m.nodes
  THEN <<>>
  ELSE [i \in 1..Len(m.nodes[nodeId].pods) |->
          LET pod == m.pods[m.nodes[nodeId].pods[i]]
          IN [id |-> m.nodes[nodeId].pods[i], nodeId |-> pod.nodeId,
              cpuRequired |-> pod.cpuRequired, status |-> pod.status]]

\* the assignments of movePod once its tests have passed: credit is what
\* the source gets back and status what the pod's status is set to
moved(m, podId, fromNodeId, toNodeId, credit, status) ==
  LET c == m.pods[podId].cpuRequired
      n1 == [m.nodes EXCEPT ![fromNodeId].availableCores = @ + credit]
      n2 == [n1 EXCEPT ![toNodeId].availableCores = @ - c]
      n3 == [n2 EXCEPT ![fromNodeId].pods = SetDelete(@, podId)]
      n4 == [n3 EXCEPT ![toNodeId].pods = SetAdd(@, podId)]
  IN [m EXCEPT !.nodes = n4,
               !.pods[podId].nodeId = toNodeId,
               !.pods[podId].status = status]

\* movePod that debits the target and forgets to credit the source
movePod_NoCredit(m, podId, fromNodeId, toNodeId) ==
  IF podId \notin DOMAIN m.pods \/ m.pods[podId].nodeId # fromNodeId
  THEN [m |-> m, ret |-> FALSE]
  ELSE IF fromNodeId \notin DOMAIN m.nodes
          \/ toNodeId \notin DOMAIN m.nodes
          \/ m.nodes[toNodeId].availableCores < m.pods[podId].cpuRequired
  THEN [m |-> m, ret |-> FALSE]
  ELSE [m |-> moved(m, podId, fromNodeId, toNodeId, 0, "running"),
        ret |-> TRUE]

\* movePod that credits the source before it tests the target
movePod_CreditBeforeCheck(m, podId, fromNodeId, toNodeId) ==
  IF podId \notin DOMAIN m.pods \/ m.pods[podId].nodeId # fromNodeId
  THEN [m |-> m, ret |-> FALSE]
  ELSE IF fromNodeId \notin DOMAIN m.nodes
          \/ toNodeId \notin DOMAIN m.nodes
  THEN [m |-> m, ret |-> FALSE]
  ELSE IF m.nodes[toNodeId].availableCores < m.pods[podId].cpuRequired
  THEN [m |-> [m EXCEPT !.nodes[fromNodeId].availableCores =
                           @ + m.pods[podId].cpuRequired],
        ret |-> FALSE]
  ELSE [m |-> moved(m, podId, fromNodeId, toNodeId,
                    m.pods[podId].cpuRequired, "running"),
        ret |-> TRUE]

\* movePod that refuses a target with exactly the cores required
movePod_StrictCapacity(m, podId, fromNodeId, toNodeId) ==
  IF podId \notin DOMAIN m.pods \/ m.pods[podId].nodeId # fromNodeId
  THEN [m |-> m, ret |-> FALSE]
  ELSE IF fromNodeId \notin DOMAIN m.nodes
          \/ toNodeId \notin DOMAIN m.nodes
          \/ m.nodes[toNodeId].availableCores <= m.pods[podId].cpuRequired
  THEN [m |-> m, ret |-> FALSE]
  ELSE [m |-> moved(m, podId, fromNodeId, toNodeId,
                    m.pods[podId].cpuRequired, "running"),
        ret |-> TRUE]

\* movePod that leaves the pod's status as it was
movePod_KeepStatus(m, podId, fromNodeId, toNodeId) ==
  IF podId \notin DOMAIN m.pods \/ m.pods[podId].nodeId # fromNodeId
  THEN [m |-> m, ret |-> FALSE]
  ELSE IF fromNodeId \notin DOMAIN m.nodes
          \/ toNodeId \notin DOMAIN m.nodes
          \/ m.nodes[toNodeId].availableCores < m.pods[podId].cpuRequired
  THEN [m |-> m, ret |-> FALSE]
  ELSE [m |-> moved(m, podId, fromNodeId, toNodeId,
                    m.pods[podId].cpuRequired, m.pods[podId].status),
        ret |-> TRUE]

movePod(m, podId, fromNodeId, toNodeId) ==
  IF podId \notin DOMAIN m.pods \/ m.pods[podId].nodeId # fromNodeId
  THEN [m |-> m, ret |-> FALSE]
  ELSE IF fromNodeId \notin DOMAIN m.nodes
          \/ toNodeId \notin DOMAIN m.nodes
          \/ m.nodes[toNodeId].availableCores < m.pods[podId].cpuRequired
  THEN [m |-> m, ret |-> FALSE]
  ELSE [m |-> moved(m, podId, fromNodeId, toNodeId,
                    m.pods[podId].cpuRequired, "running"),
        ret |-> TRUE]

\* removePod that leaves the pod's id in its node's pod set
removePod_KeepsInSet(m, podId) ==
  IF podId \notin DOMAIN m.pods
  THEN [m |-> m, ret |-> FALSE]
  ELSE LET pod == m.pods[podId]
           ns == IF pod.nodeId \in DOMAIN m.nodes
                 THEN [m.nodes EXCEPT
                         ![pod.nodeId].availableCores = @ + pod.cpuRequired]
                 ELSE m.nodes
       IN [m |-> [m EXCEPT !.nodes = ns,
                           !.pods = [p \in DOMAIN m.pods \ {podId} |->
                                       m.pods[p]]],
           ret |-> TRUE]

\* removePod that deletes the pod without crediting its node
removePod_NoCredit(m, podId) ==
  IF podId \notin DOMAIN m.pods
  THEN [m |-> m, ret |-> FALSE]
  ELSE LET pod == m.pods[podId]
           ns == IF pod.nodeId \in DOMAIN m.nodes
                 THEN [m.nodes EXCEPT
                         ![pod.nodeId].pods = SetDelete(@, podId)]
                 ELSE m.nodes
       IN [m |-> [m EXCEPT !.nodes = ns,
                           !.pods = [p \in DOMAIN m.pods \ {podId} |->
                                       m.pods[p]]],
           ret |-> TRUE]

removePod(m, podId) ==
  IF podId \notin DOMAIN m.pods
  THEN [m |-> m, ret |-> FALSE]
  ELSE LET pod == m.pods[podId]
           ns == IF pod.nodeId \in DOMAIN m.nodes
                 THEN [m.nodes EXCEPT
                         ![pod.nodeId].availableCores = @ + pod.cpuRequired,
                         ![pod.nodeId].pods = SetDelete(@, podId)]
                 ELSE m.nodes
       IN [m |-> [m EXCEPT !.nodes = ns,
                           !.pods = [p \in DOMAIN m.pods \ {podId} |->
                                       m.pods[p]]],
           ret |-> TRUE]

\* getAvailableNodes without the status test
getAvailableNodes_AnyStatus(m) ==
  SelectSeq(m.nodeOrder, LAMBDA n : m.nodes[n].availableCores > 0)

getAvailableNodes(m) ==
  SelectSeq(m.nodeOrder,
            LAMBDA n : m.nodes[n].status = "healthy"
                       /\ m.nodes[n].availableCores > 0)

\* a first fit over all nodes that does not look at the status
RECURSIVE findFrom_AnyStatus(_, _, _)
findFrom_AnyStatus(m, cpuRequired, i) ==
  IF i > Len(m.nodeOrder) THEN Null
  ELSE IF m.nodes[m.nodeOrder[i]].availableCores >= cpuRequired
  THEN m.nodeOrder[i]
  ELSE findFrom_AnyStatus(m, cpuRequired, i + 1)

RECURSIVE findFrom(_, _, _)
findFrom(m, cpuRequired, i) ==
  IF i > Len(m.nodeOrder) THEN Null
  ELSE IF m.nodes[m.nodeOrder[i]].status = "healthy"
          /\ m.nodes[m.nodeOrder[i]].availableCores >= cpuRequired
  THEN m.nodeOrder[i]
  ELSE findFrom(m, cpuRequired, i + 1)

findAvailableNodeForPod(m, cpuRequired) == findFrom(m, cpuRequired, 1)

\* getSystemStatus reads the identifiers nodes, pods and totalCores, which
\* are declared nowhere: every call raises a ReferenceError
getSystemStatusThrows == TRUE

RECURSIVE relocateEach(_, _, _, _, _, _)
relocateEach(m, ps, nodeId, t, i, ops) ==
  IF i > Len(ps) THEN [m |-> m, recoveryOperations |-> ops]
  ELSE LET newNodeId == findAvailableNodeForPod(m, ps[i].cpuRequired)
           operation == [podId |-> ps[i].id, fromNode |-> nodeId,
                         toNode |-> newNodeId,
                         status |-> IF newNodeId # Null
                                    THEN "COMPLETED" ELSE "PENDING",
                         timestamp |-> t]
           m1 == IF newNodeId # Null
                 THEN movePod(m, ps[i].id, nodeId, newNodeId).m
                 ELSE m
       IN relocateEach([m1 EXCEPT !.recoveryOperations =
                                     (ps[i].id :> operation) @@ @],
                       ps, nodeId, t, i + 1, Append(ops, operation))

simulateNodeFailure(m, nodeId, t) ==
  IF nodeId \notin DOMAIN m.nodes
  THEN [m |-> m, ret |-> "null"]
  ELSE LET m1 == [m EXCEPT !.nodes[nodeId].status = "failed"]
           r == relocateEach(m1, getPodsOnNode(m1, nodeId), nodeId, t, 1,
                             <<>>)
       IN [m |-> r.m,
           ret |-> IF getSystemStatusThrows THEN "threw" ELSE "object"]

\* getRecoveryStatus: the operations still PENDING and those COMPLETED less
\* than 300000 ms ago, as the set of the array's elements
RecoveryRetention == 300

getRecoveryStatus(m, t) ==
  {op \in {m.recoveryOperations[p] : p \in DOMAIN m.recoveryOperations} :
     \/ op.status = "PENDING"
     \/ (op.status = "COMPLETED" /\ t - op.timestamp < RecoveryRetention)}

\* ------------------------------------------------------------- PodScheduler
RECURSIVE firstFit(_, _, _, _)
firstFit(m, ns, cpuRequired, i) ==
  IF i > Len(ns) THEN Null
  ELSE IF m.nodes[ns[i]].availableCores >= cpuRequired THEN ns[i]
  ELSE firstFit(m, ns, cpuRequired, i + 1)

schedulePod(m, cpuRequired) ==
  firstFit(m, getAvailableNodes(m), cpuRequired, 1)

\* ------------------------------------------------------------ HealthMonitor
lessThan(lastHeartbeat, threshold) ==
  lastHeartbeat.kind = "Date" /\ lastHeartbeat.t < threshold

RECURSIVE rescheduleEach(_, _, _, _)
rescheduleEach(m, ps, nodeId, i) ==
  IF i > Len(ps) THEN m
  ELSE LET newNodeId == schedulePod(m, ps[i].cpuRequired)
       IN rescheduleEach(IF newNodeId # Null
                         THEN movePod(m, ps[i].id, nodeId, newNodeId).m
                         ELSE m,
                         ps, nodeId, i + 1)

handleNodeFailure(m, nodeId) ==
  rescheduleEach(m, getPodsOnNode(m, nodeId), nodeId, 1)

RECURSIVE checkEach(_, _, _)
checkEach(m, threshold, i) ==
  IF i > Len(m.nodeOrder) THEN m
  ELSE LET nodeId == m.nodeOrder[i]
           node == m.nodes[nodeId]
       IN IF lessThan(node.lastHeartbeat, threshold)
             /\ node.status # "unhealthy"
          THEN checkEach(handleNodeFailure(
                           [m EXCEPT !.nodes[nodeId].status = "unhealthy"],
                           nodeId),
                         threshold, i + 1)
          ELSE checkEach(m, threshold, i + 1)

checkNodeHealth(m, t) == checkEach(m, t - UnhealthyTimeout, 1)

\* -------------------------------------------------------------- node agent
HEARTBEAT_INTERVAL == 10      \* seconds
MAX_RETRY_ATTEMPTS == 5
MaxRetryDelay == 60           \* seconds

RECURSIVE Pow2(_)
Pow2(n) == IF n = 0 THEN 1 ELSE 2 * Pow2(n - 1)

Min(a, b) == IF a < b THEN a ELSE b

\* A pending setTimeout of the agent: kind "heartbeat" is the callback of
\* startHeartbeat, kind "retry" the one set in the catch block of
\* sendHeartbeat; retries counts the retries the heartbeat has had when the
\* callback runs.
AgentTimerOf(kind, due, retries) ==
  [kind |-> kind, due |-> due, retries |-> retries]

\* the agent after new NodeSimulator() and start(): the first periodic
\* heartbeat is pending; last describes the sendHeartbeat that ran last
NodeSimulator ==
  [retryAttempts |-> 0,
   clock |-> 0,
   timers |-> {AgentTimerOf("heartbeat", HEARTBEAT_INTERVAL, 0)},
   last |-> [kind |-> "none", retries |-> 0, ok |-> TRUE, retryDelay |-> 0]]

\* sendHeartbeat run from the callback timer at time a.clock; ok says
\* whether the POST was answered 2xx.  The request is answered at once.
sendHeartbeat(a, timer, ok) ==
  LET retry == ~ok /\ a.retryAttempts < MAX_RETRY_ATTEMPTS
      attempts == IF ok THEN 0
                  ELSE IF retry THEN a.retryAttempts + 1
                  ELSE a.retryAttempts
      retryDelay == IF retry THEN Min(MaxRetryDelay, Pow2(attempts)) ELSE 0
  IN [a EXCEPT
        !.retryAttempts = attempts,
        !.timers =
           IF retry
           THEN @ \cup {AgentTimerOf("retry", a.clock + retryDelay,
                                     timer.retries + 1)}
           ELSE @,
        !.last = [kind |-> timer.kind, retries |-> timer.retries,
                  ok |-> ok, retryDelay |-> retryDelay]]

\* startHeartbeat: the next periodic heartbeat, set once sendHeartbeat is done
startHeartbeat(a) ==
  [a EXCEPT !.timers = @ \cup {AgentTimerOf("heartbeat",
                                            a.clock + HEARTBEAT_INTERVAL, 0)}]

\* ------------------------------------------------------------------- Init
Init ==
  /\ nodes = <<>>
  /\ nodeOrder = <<>>
  /\ pods = <<>>
  /\ recoveryOperations = <<>>
  /\ podCount = 0
  /\ timers = <<>>
  /\ now = 0
  /\ steps = 0
  /\ lastResult = Result("idle", 0, "none")
  /\ provisioning = <<>>
  /\ agent = NodeSimulator

\* ------------------------------------------------- HTTP handlers and timers
\* A pod start-up timer that has fallen due runs before anything that
\* happens later than its due time.
TimerDue == \E p \in DOMAIN timers : now >= timers[p].due

\* The event loop runs one callback at a time; lastResult holds the outcome
\* of the callback that has just run until control returns to the loop.
Idle == lastResult.op = "idle"
Run == Idle /\ steps < MaxSteps /\ steps' = steps + 1
Ready == Run /\ ~TimerDue

\* the podStatuses maps a heartbeat may carry about the pods of S
MapsOf(S) ==
  UNION {[D -> HeartbeatStatuses] :
           D \in {T \in SUBSET S : Cardinality(T) <= MaxReported}}

\* POST /nodes.  Before its awaits the handler only validates cpu_cores, and
\* after them it only calls addNode with values local to the request, so
\* the handler takes effect at the instant of addNode.  container.id is an
\* id no other node has.  `started` is whether docker.createContainer and
\* container.start both resolved.
RegisterNode(cpu_cores, started) ==
  /\ Ready
  /\ IF cpu_cores <= 0
     THEN /\ lastResult' = Result("registerNode", 400, "none")
          /\ UNCHANGED <<nodes, nodeOrder, pods, recoveryOperations>>
     ELSE IF ~started
     THEN /\ lastResult' = Result("registerNode", 500, "none")
          /\ UNCHANGED <<nodes, nodeOrder, pods, recoveryOperations>>
     ELSE /\ Len(nodeOrder) < MaxNodes
          /\ LET nodeId == CHOOSE n \in 1..MaxNodes :
                              /\ n \notin DOMAIN nodes
                              /\ \A k \in 1..(n - 1) : k \in DOMAIN nodes
             IN /\ SetNM(addNode(NM, nodeId, parseInt(cpu_cores), now))
                /\ lastResult' = [Result("registerNode", 201, "none")
                                    EXCEPT !.nodeId = nodeId]
  /\ UNCHANGED <<podCount, timers, now, provisioning, agent>>

\* POST /nodes/:id/heartbeat
Heartbeat(id, podStatuses) ==
  /\ Ready
  /\ LET r == recordHeartbeat(NM, id, podStatuses, now)
     IN /\ SetNM(r.m)
        /\ lastResult' = [Result("heartbeat", IF r.ret THEN 200 ELSE 404,
                                 "none") EXCEPT !.nodeId = id]
  /\ UNCHANGED <<podCount, timers, now, provisioning, agent>>

\* a simulate-failure that skips the relocation loop for a node that is
\* already failed
SimulateFailure_Once(nodeId) ==
  /\ Ready
  /\ IF nodeId \notin DOMAIN nodes
     THEN /\ lastResult' = [Result("simulateFailure", 404, "none")
                              EXCEPT !.nodeId = nodeId]
          /\ UNCHANGED <<nodes, nodeOrder, pods, recoveryOperations>>
     ELSE LET m1 == [NM EXCEPT !.nodes[nodeId].lastHeartbeat = newDate(now),
                               !.nodes[nodeId].status = "failed"]
              ps == getPodsOnNode(m1, nodeId)
              ops == [i \in 1..Len(ps) |->
                        [podId |-> ps[i].id, fromNode |-> Null,
                         toNode |-> Null, status |-> "PENDING"]]
              m2 == IF nodes[nodeId].status = "failed"
                    THEN m1 ELSE rescheduleEach(m1, ps, nodeId, 1)
          IN /\ SetNM(m2)
             /\ lastResult' =
                  IF getNodesThrows(m2)
                  THEN [Result("simulateFailure", 500, "none")
                          EXCEPT !.nodeId = nodeId]
                  ELSE [Result("simulateFailure", 200, "none")
                          EXCEPT !.nodeId = nodeId,
                                 !.recoveryOperations = ops]
  /\ UNCHANGED <<podCount, timers, now, provisioning, agent>>

\* POST /nodes/:id/simulate-failure
SimulateFailure(nodeId) ==
  /\ Ready
  /\ IF nodeId \notin DOMAIN nodes
     THEN /\ lastResult' = [Result("simulateFailure", 404, "none")
                              EXCEPT !.nodeId = nodeId]
          /\ UNCHANGED <<nodes, nodeOrder, pods, recoveryOperations>>
     ELSE LET m1 == [NM EXCEPT !.nodes[nodeId].lastHeartbeat = newDate(now),
                               !.nodes[nodeId].status = "failed"]
              ps == getPodsOnNode(m1, nodeId)
              ops == [i \in 1..Len(ps) |->
                        [podId |-> ps[i].id, fromNode |-> Null,
                         toNode |-> Null, status |-> "PENDING"]]
              m2 == rescheduleEach(m1, ps, nodeId, 1)
          IN /\ SetNM(m2)
             /\ lastResult' =
                  IF getNodesThrows(m2)
                  THEN [Result("simulateFailure", 500, "none")
                          EXCEPT !.nodeId = nodeId]
                  ELSE [Result("simulateFailure", 200, "none")
                          EXCEPT !.nodeId = nodeId,
                                 !.recoveryOperations = ops]
  /\ UNCHANGED <<podCount, timers, now, provisioning, agent>>

RECURSIVE drainEach(_, _, _, _, _)
drainEach(m, ps, nodeId, i, evacuatedPods) ==
  IF i > Len(ps) THEN [m |-> m, evacuatedPods |-> evacuatedPods]
  ELSE LET newNodeId == schedulePod(m, ps[i].cpuRequired)
       IN IF newNodeId # Null
          THEN drainEach(movePod(m, ps[i].id, nodeId, newNodeId).m, ps,
                         nodeId, i + 1,
                         Append(evacuatedPods,
                                [id |-> ps[i].id, newNodeId |-> newNodeId]))
          ELSE drainEach(m, ps, nodeId, i + 1, evacuatedPods)

\* a drain that runs the relocation loop without marking the node draining
Drain_KeepStatus(nodeId) ==
  /\ Ready
  /\ IF nodeId \notin DOMAIN nodes
     THEN /\ lastResult' = [Result("drain", 404, "none")
                              EXCEPT !.nodeId = nodeId]
          /\ UNCHANGED <<nodes, nodeOrder, pods, recoveryOperations>>
     ELSE LET r == drainEach(NM, getPodsOnNode(NM, nodeId), nodeId, 1, <<>>)
          IN /\ SetNM(r.m)
             /\ lastResult' =
                  [Result("drain", 200, "none")
                     EXCEPT !.nodeId = nodeId,
                            !.evacuatedPods = r.evacuatedPods,
                            !.remainingPods =
                               Len(getPodsOnNode(r.m, nodeId))]
  /\ UNCHANGED <<podCount, timers, now, provisioning, agent>>

\* POST /nodes/:id/drain
Drain(nodeId) ==
  /\ Ready
  /\ IF nodeId \notin DOMAIN nodes
     THEN /\ lastResult' = [Result("drain", 404, "none")
                              EXCEPT !.nodeId = nodeId]
          /\ UNCHANGED <<nodes, nodeOrder, pods, recoveryOperations>>
     ELSE LET m1 == [NM EXCEPT !.nodes[nodeId].status = "draining"]
              r == drainEach(m1, getPodsOnNode(m1, nodeId), nodeId, 1, <<>>)
          IN /\ SetNM(r.m)
             /\ lastResult' =
                  [Result("drain", 200, "none")
                     EXCEPT !.nodeId = nodeId,
                            !.evacuatedPods = r.evacuatedPods,
                            !.remainingPods =
                               Len(getPodsOnNode(r.m, nodeId))]
  /\ UNCHANGED <<podCount, timers, now, provisioning, agent>>

\* a repair that also gives the node all its cores back
Repair_ResetsCores(nodeId) ==
  /\ Ready
  /\ IF nodeId \notin DOMAIN nodes
     THEN /\ lastResult' = [Result("repair", 404, "none")
                              EXCEPT !.nodeId = nodeId]
          /\ UNCHANGED <<nodes, nodeOrder, pods, recoveryOperations>>
     ELSE LET m1 == [NM EXCEPT
                       !.nodes[nodeId].status = "healthy",
                       !.nodes[nodeId].availableCores =
                          NM.nodes[nodeId].cpuCores,
                       !.nodes[nodeId].lastHeartbeat = toISOString(now)]
          IN /\ SetNM(m1)
             /\ lastResult' =
                  [Result("repair", IF getNodesThrows(m1) THEN 500 ELSE 200,
                          "none") EXCEPT !.nodeId = nodeId]
  /\ UNCHANGED <<podCount, timers, now, provisioning, agent>>

\* POST /nodes/:id/repair-complete
Repair(nodeId) ==
  /\ Ready
  /\ IF nodeId \notin DOMAIN nodes
     THEN /\ lastResult' = [Result("repair", 404, "none")
                              EXCEPT !.nodeId = nodeId]
          /\ UNCHANGED <<nodes, nodeOrder, pods, recoveryOperations>>
     ELSE LET m1 == [NM EXCEPT
                       !.nodes[nodeId].status = "healthy",
                       !.nodes[nodeId].lastHeartbeat = toISOString(now)]
          IN /\ SetNM(m1)
             /\ lastResult' =
                  [Result("repair", IF getNodesThrows(m1) THEN 500 ELSE 200,
                          "none") EXCEPT !.nodeId = nodeId]
  /\ UNCHANGED <<podCount, timers, now, provisioning, agent>>

\* POST /pods
SchedulePod(cpu_required) ==
  LET nodeId == schedulePod(NM, cpu_required)
  IN /\ Ready
     /\ IF nodeId = Null
        THEN \* getAvailableNodes() is a Map, it has no .map: TypeError,
             \* caught by the handler
             /\ lastResult' = Result("schedulePod", 500, "none")
             /\ UNCHANGED <<nodes, nodeOrder, pods, recoveryOperations,
                            podCount, timers, now, provisioning, agent>>
        ELSE /\ podCount < MaxPods
             /\ LET podId == podCount + 1
                    r == addPod(NM, nodeId, podId, cpu_required, now)
                IN /\ SetNM(r.m)
                   /\ podCount' = podId
                   /\ timers' = IF r.ret
                                THEN (podId :> [nodeId |-> nodeId,
                                                due |-> now + PodStartDelay])
                                     @@ timers
                                ELSE timers
                   /\ lastResult' = [Result("schedulePod", 201, "none")
                                       EXCEPT !.nodeId = nodeId,
                                              !.podId = podId]
             /\ UNCHANGED <<now, provisioning, agent>>

\* DELETE /pods/:id
DeletePod(podId) ==
  /\ Ready
  /\ IF podId \notin DOMAIN pods
     THEN /\ lastResult' = [Result("deletePod", 404, "none")
                              EXCEPT !.podId = podId]
          /\ UNCHANGED <<nodes, nodeOrder, pods, recoveryOperations>>
     ELSE LET pod == pods[podId]
              r == removePod(NM, podId)
          IN /\ SetNM(r.m)
             /\ lastResult' = [Result("deletePod",
                                      IF r.ret THEN 200 ELSE 500, "none")
                                 EXCEPT !.podId = podId,
                                        !.nodeId = pod.nodeId]
  /\ UNCHANGED <<podCount, timers, now, provisioning, agent>>

\* a start-up timer callback that also marks the captured node healthy
PodTimer_Revives(podId) ==
  /\ Run
  /\ podId \in DOMAIN timers
  /\ now >= timers[podId].due
  /\ \A p \in DOMAIN timers : p >= podId
  /\ timers' = [p \in DOMAIN timers \ {podId} |-> timers[p]]
  /\ IF podId \in DOMAIN pods
     THEN /\ pods' = [pods EXCEPT ![podId].status = "running"]
          /\ nodes' = IF timers[podId].nodeId \in DOMAIN nodes
                       THEN [nodes EXCEPT
                               ![timers[podId].nodeId].lastHeartbeat =
                                  newDate(timers[podId].due),
                               ![timers[podId].nodeId].status = "healthy"]
                       ELSE nodes
     ELSE UNCHANGED <<nodes, pods>>
  /\ lastResult' = [Result("podTimer", 0, "none") EXCEPT !.podId = podId]
  /\ UNCHANGED <<nodeOrder, recoveryOperations, podCount, now,
                 provisioning, agent>>

\* the setTimeout callback of addPod; node is the Node object captured when
\* the pod was added (timers[podId].nodeId is Null once that object has been
\* replaced in the registry: the assignment then reaches no registered node)
PodTimer(podId) ==
  /\ Run
  /\ podId \in DOMAIN timers
  /\ now >= timers[podId].due
  /\ \A p \in DOMAIN timers : p >= podId
  /\ timers' = [p \in DOMAIN timers \ {podId} |-> timers[p]]
  /\ IF podId \in DOMAIN pods
     THEN /\ pods' = [pods EXCEPT ![podId].status = "running"]
          /\ nodes' = IF timers[podId].nodeId \in DOMAIN nodes
                       THEN [nodes EXCEPT
                               ![timers[podId].nodeId].lastHeartbeat =
                                  newDate(timers[podId].due)]
                       ELSE nodes
     ELSE UNCHANGED <<nodes, pods>>
  /\ lastResult' = [Result("podTimer", 0, "none") EXCEPT !.podId = podId]
  /\ UNCHANGED <<nodeOrder, recoveryOperations, podCount, now,
                 provisioning, agent>>

\* the setInterval callback of HealthMonitor
HealthSweep ==
  /\ Ready
  /\ SetNM(checkNodeHealth(NM, now))
  /\ lastResult' = Result("checkNodeHealth", 0, "none")
  /\ UNCHANGED <<podCount, timers, now, provisioning, agent>>

\* The clock is observed every TickStep seconds.  A timer callback that
\* fell due in between runs first, at its due time.
Tick ==
  /\ Ready
  /\ now + TickStep <= MaxTime
  /\ now' = now + TickStep
  /\ lastResult' = Result("tick", 0, "none")
  /\ UNCHANGED <<nodes, nodeOrder, pods, recoveryOperations, podCount,
                 timers, provisioning, agent>>

\* control returns to the event loop
Return ==
  /\ ~Idle
  /\ lastResult' = Result("idle", 0, "none")
  /\ UNCHANGED <<nodes, nodeOrder, pods, recoveryOperations, podCount,
                 timers, now, steps, provisioning, agent>>

Next ==
  \/ \E c \in CpuCoresInputs : \E started \in BOOLEAN :
        RegisterNode(c, started)
  \/ \E id \in NodeIdInputs : \E ps \in MapsOf(PodIdInputs) : Heartbeat(id, ps)
  \/ \E id \in NodeIdInputs : SimulateFailure(id)
  \/ \E id \in NodeIdInputs : Drain(id)
  \/ \E id \in NodeIdInputs : Repair(id)
  \/ \E c \in CpuRequiredInputs : SchedulePod(c)
  \/ \E p \in PodIdInputs : DeletePod(p)
  \/ \E p \in PodIdInputs : PodTimer(p)
  \/ HealthSweep
  \/ Tick
  \/ Return

Spec == Init /\ [][Next]_vars

\* ------------------------------------------- direct calls of the NodeManager
\* The registry operations called on the NodeManager object itself, with
\* any arguments; pod ids are new ones, as the server's are.
CallAddPod(nodeId, cpuRequired) ==
  /\ Ready
  /\ podCount < MaxPods
  /\ LET podId == podCount + 1
         r == addPod(NM, nodeId, podId, cpuRequired, now)
     IN /\ SetNM(r.m)
        /\ podCount' = IF r.ret THEN podId ELSE podCount
        /\ timers' = IF r.ret
                     THEN (podId :> [nodeId |-> nodeId,
                                     due |-> now + PodStartDelay]) @@ timers
                     ELSE timers
        /\ lastResult' = [Result("addPod", 0,
                                 IF r.ret THEN "true" ELSE "false")
                            EXCEPT !.nodeId = nodeId, !.podId = podId]
  /\ UNCHANGED <<now, provisioning, agent>>

CallMovePod(podId, fromNodeId, toNodeId) ==
  /\ Ready
  /\ LET r == movePod(NM, podId, fromNodeId, toNodeId)
     IN /\ SetNM(r.m)
        /\ lastResult' = [Result("movePod", 0,
                                 IF r.ret THEN "true" ELSE "false")
                            EXCEPT !.nodeId = fromNodeId,
                                   !.toNodeId = toNodeId,
                                   !.podId = podId]
  /\ UNCHANGED <<podCount, timers, now, provisioning, agent>>

CallRemovePod(podId) ==
  /\ Ready
  /\ LET r == removePod(NM, podId)
     IN /\ SetNM(r.m)
        /\ lastResult' = [Result("removePod", 0,
                                 IF r.ret THEN "true" ELSE "false")
                            EXCEPT !.podId = podId]
  /\ UNCHANGED <<podCount, timers, now, provisioning, agent>>

CallSimulateNodeFailure(nodeId) ==
  /\ Ready
  /\ LET r == simulateNodeFailure(NM, nodeId, now)
     IN /\ SetNM(r.m)
        /\ lastResult' = [Result("simulateNodeFailure", 0, r.ret)
                            EXCEPT !.nodeId = nodeId]
  /\ UNCHANGED <<podCount, timers, now, provisioning, agent>>

NextAPI ==
  \/ Next
  \/ \E n \in NodeIdInputs : \E c \in CpuRequiredInputs : CallAddPod(n, c)
  \/ \E p \in PodIdInputs : \E f \in NodeIdInputs : \E t \in NodeIdInputs :
        CallMovePod(p, f, t)
  \/ \E p \in PodIdInputs : CallRemovePod(p)
  \/ \E n \in NodeIdInputs : CallSimulateNodeFailure(n)

SpecAPI == Init /\ [][NextAPI]_vars

\* addNode called with an id of the caller's choice.  A Node object that is
\* replaced under its id stays captured by the start-up timers of its pods.
CallAddNode(nodeId, cpuCores) ==
  /\ Ready
  /\ SetNM(addNode(NM, nodeId, cpuCores, now))
  /\ timers' = [p \in DOMAIN timers |->
                  IF timers[p].nodeId = nodeId
                  THEN [timers[p] EXCEPT !.nodeId = Null]
                  ELSE timers[p]]
  /\ lastResult' = [Result("addNode", 0, "node") EXCEPT !.nodeId = nodeId]
  /\ UNCHANGED <<podCount, now, provisioning, agent>>

NextAddNode ==
  \/ Next
  \/ \E n \in 1..MaxNodes : \E c \in 1..MaxCores : CallAddNode(n, c)

SpecAddNode == Init /\ [][NextAddNode]_vars

\* ------------------------------------------- POST /nodes across its awaits
\* The handler of POST /nodes is suspended at `await docker.createContainer`
\* and at `await container.start()`; other callbacks run in between.  A
\* request in flight is [cpu_cores, stage], stage being the call it waits on.
MaxInFlight == 1       \* POST /nodes requests waiting on docker at a time

RemoveAt(q, i) == [j \in 1..(Len(q) - 1) |-> IF j < i THEN q[j] ELSE q[j + 1]]

\* the request passes validation and calls docker.createContainer
BeginRegister(cpu_cores) ==
  /\ Ready
  /\ cpu_cores > 0
  /\ Len(provisioning) < MaxInFlight
  /\ provisioning' = Append(provisioning, [cpu_cores |-> cpu_cores,
                                           stage |-> "createContainer"])
  /\ UNCHANGED agent
  /\ lastResult' = Result("provisioning", 0, "createContainer")
  /\ UNCHANGED <<nodes, nodeOrder, pods, recoveryOperations, podCount,
                 timers, now>>

\* docker.createContainer resolves; the handler calls container.start
ContainerCreated(i) ==
  /\ Ready
  /\ i \in 1..Len(provisioning)
  /\ provisioning[i].stage = "createContainer"
  /\ provisioning' = [provisioning EXCEPT ![i].stage = "start"]
  /\ UNCHANGED agent
  /\ lastResult' = Result("provisioning", 0, "start")
  /\ UNCHANGED <<nodes, nodeOrder, pods, recoveryOperations, podCount,
                 timers, now>>

\* a failed provisioning that leaves a registry entry behind
ProvisionFails_NoRollback(i) ==
  /\ Ready
  /\ i \in 1..Len(provisioning)
  /\ Len(nodeOrder) < MaxNodes
  /\ provisioning' = RemoveAt(provisioning, i)
  /\ UNCHANGED agent
  /\ SetNM(addNode(NM, CHOOSE n \in 1..MaxNodes : n \notin DOMAIN nodes,
                   parseInt(provisioning[i].cpu_cores), now))
  /\ lastResult' = Result("registerNode", 500, provisioning[i].stage)
  /\ UNCHANGED <<podCount, timers, now>>

\* the awaited docker call rejects: the catch block answers 500
ProvisionFails(i) ==
  /\ Ready
  /\ i \in 1..Len(provisioning)
  /\ provisioning' = RemoveAt(provisioning, i)
  /\ UNCHANGED agent
  /\ lastResult' = Result("registerNode", 500, provisioning[i].stage)
  /\ UNCHANGED <<nodes, nodeOrder, pods, recoveryOperations, podCount,
                 timers, now>>

\* container.start resolves: addNode(container.id, parseInt(cpu_cores))
ContainerStarted(i) ==
  /\ Ready
  /\ i \in 1..Len(provisioning)
  /\ provisioning[i].stage = "start"
  /\ Len(nodeOrder) < MaxNodes
  /\ provisioning' = RemoveAt(provisioning, i)
  /\ UNCHANGED agent
  /\ LET nodeId == CHOOSE n \in 1..MaxNodes :
                     /\ n \notin DOMAIN nodes
                     /\ \A k \in 1..(n - 1) : k \in DOMAIN nodes
     IN /\ SetNM(addNode(NM, nodeId, parseInt(provisioning[i].cpu_cores),
                         now))
        /\ lastResult' = [Result("registerNode", 201, "none")
                            EXCEPT !.nodeId = nodeId]
  /\ UNCHANGED <<podCount, timers, now>>

NextProvision ==
  \/ Next
  \/ \E c \in CpuCoresInputs : BeginRegister(c)
  \/ \E i \in 1..MaxInFlight : ContainerCreated(i)
  \/ \E i \in 1..MaxInFlight : ProvisionFails(i)
  \/ \E i \in 1..MaxInFlight : ContainerStarted(i)

SpecProvision == Init /\ [][NextProvision]_vars

\* ------------------------------------------------------ timers that do fire
\* setTimeout callbacks are run by the event loop once their delay has
\* elapsed, however many requests the server has handled: the callback of
\* the oldest pending timer runs at its due time (or now, if that is past).
\* a timer callback that runs without starting the pod
TimerFires_Forgets(podId) ==
  /\ Idle
  /\ podId \in DOMAIN timers
  /\ \A p \in DOMAIN timers : p >= podId
  /\ timers' = [p \in DOMAIN timers \ {podId} |-> timers[p]]
  /\ now' = IF now < timers[podId].due THEN timers[podId].due ELSE now
  /\ lastResult' = [Result("podTimer", 0, "none") EXCEPT !.podId = podId]
  /\ UNCHANGED <<nodes, pods, nodeOrder, recoveryOperations, podCount, steps,
                 provisioning, agent>>

TimerFires(podId) ==
  /\ Idle
  /\ podId \in DOMAIN timers
  /\ \A p \in DOMAIN timers : p >= podId
  /\ timers' = [p \in DOMAIN timers \ {podId} |-> timers[p]]
  /\ now' = IF now < timers[podId].due THEN timers[podId].due ELSE now
  /\ IF podId \in DOMAIN pods
     THEN /\ pods' = [pods EXCEPT ![podId].status = "running"]
          /\ nodes' = IF timers[podId].nodeId \in DOMAIN nodes
                       THEN [nodes EXCEPT
                               ![timers[podId].nodeId].lastHeartbeat =
                                  newDate(now')]
                       ELSE nodes
     ELSE UNCHANGED <<nodes, pods>>
  /\ lastResult' = [Result("podTimer", 0, "none") EXCEPT !.podId = podId]
  /\ UNCHANGED <<nodeOrder, recoveryOperations, podCount, steps,
                 provisioning, agent>>

NextLive ==
  \/ Next
  \/ \E p \in PodIdInputs : TimerFires(p)

\* the event loop always returns from a callback and runs a timer callback
\* that stays due
SpecLive ==
  /\ Init
  /\ [][NextLive]_vars
  /\ WF_vars(Return)
  /\ \A p \in PodIdInputs : WF_vars(TimerFires(p))

\* ------------------------------------------- an error raised during a sweep
\* checkNodeHealth runs handleNodeFailure inside the forEach callback with
\* no try/catch.  An error raised while node number bad is handled, after
\* its status was set and before any of its pods moved, leaves the forEach:
\* the nodes behind it are not looked at.
RECURSIVE checkEachRaising(_, _, _, _)
checkEachRaising(m, threshold, i, bad) ==
  IF i > Len(m.nodeOrder) THEN m
  ELSE LET nodeId == m.nodeOrder[i]
           node == m.nodes[nodeId]
       IN IF lessThan(node.lastHeartbeat, threshold)
             /\ node.status # "unhealthy"
          THEN IF i = bad
               THEN [m EXCEPT !.nodes[nodeId].status = "unhealthy"]
               ELSE checkEachRaising(
                      handleNodeFailure(
                        [m EXCEPT !.nodes[nodeId].status = "unhealthy"],
                        nodeId),
                      threshold, i + 1, bad)
          ELSE checkEachRaising(m, threshold, i + 1, bad)

\* the setInterval callback, with an error raised at node number bad
HealthSweepRaises(bad) ==
  /\ Ready
  /\ bad \in 1..Len(nodeOrder)
  /\ lessThan(nodes[nodeOrder[bad]].lastHeartbeat, now - UnhealthyTimeout)
  /\ nodes[nodeOrder[bad]].status # "unhealthy"
  /\ SetNM(checkEachRaising(NM, now - UnhealthyTimeout, 1, bad))
  /\ lastResult' = [Result("checkNodeHealth", 500, "raised")
                      EXCEPT !.nodeId = nodeOrder[bad]]
  /\ UNCHANGED <<podCount, timers, now, provisioning, agent>>

NextSweepFault ==
  \/ Next
  \/ \E bad \in 1..MaxNodes : HealthSweepRaises(bad)

SpecSweepFault == Init /\ [][NextSweepFault]_vars

\* ------------------------------------------------ heartbeats of the agents
\* POST /nodes starts the container with NODE_ID=uuidv4() in its
\* environment and registers the node under container.id.  A uuid never has
\* the form of a container id.
uuidv4 == 0 - 1

\* the nodeId of the NodeSimulator running in container containerId
agentNodeId(containerId) == uuidv4

\* NodeSimulator.sendHeartbeat of the agent in container containerId,
\* answered by POST /nodes/:id/heartbeat; the pods it reports are its own
\* simulated ones, none of the registry's
AgentHeartbeat(containerId) ==
  /\ Ready
  /\ containerId \in DOMAIN nodes
  /\ LET r == recordHeartbeat(NM, agentNodeId(containerId), <<>>, now)
     IN /\ SetNM(r.m)
        /\ lastResult' = [Result("sendHeartbeat", IF r.ret THEN 200 ELSE 404,
                                 "none") EXCEPT !.nodeId = containerId]
  /\ UNCHANGED <<podCount, timers, now, provisioning, agent>>

NextAgent ==
  \/ Next
  \/ \E id \in 1..MaxNodes : AgentHeartbeat(id)

SpecAgent == Init /\ [][NextAgent]_vars

\* ------------------------------------------------- the agent's own timers
MaxAgentTime == 70     \* seconds of agent time

\* the agent's event loop runs the callback that is due first
AgentTimer(timer, ok) ==
  /\ timer \in agent.timers
  /\ \A u \in agent.timers : timer.due <= u.due
  /\ timer.due <= MaxAgentTime
  /\ LET a1 == [agent EXCEPT !.clock = timer.due,
                             !.timers = @ \ {timer}]
         a2 == sendHeartbeat(a1, timer, ok)
     IN agent' = IF timer.kind = "heartbeat" THEN startHeartbeat(a2) ELSE a2
  /\ UNCHANGED <<nodes, nodeOrder, pods, recoveryOperations, podCount,
                 timers, now, steps, lastResult, provisioning>>

AgentTimers ==
  {AgentTimerOf(k, d, r) : k \in {"heartbeat", "retry"},
                           d \in 0..MaxAgentTime,
                           r \in 0..(MaxAgentTime \div 2)}

NextRetry == \E timer \in AgentTimers : \E ok \in BOOLEAN : AgentTimer(timer, ok)

SpecRetry == Init /\ [][NextRetry]_vars

RECURSIVE SumCpu(_)
SumCpu(S) ==
  IF S = {} THEN 0
  ELSE LET p == CHOOSE x \in S : TRUE
       IN pods[p].cpuRequired + SumCpu(S \ {p})

PodsAssignedTo(n) == {p \in DOMAIN pods : pods[p].nodeId = n}

\* C1: in every reachable state, for every node, availableCores plus the
\* cpuRequired of the pods assigned to the node equals its total cores.
C1_CapacityInvariant ==
  \A n \in DOMAIN nodes :
    nodes[n].availableCores + SumCpu(PodsAssignedTo(n)) = nodes[n].cpuCores

\* a pod has just been moved between two different nodes
C1_Witness ==
  /\ lastResult.op = "movePod"
  /\ lastResult.ret = "true"
  /\ lastResult.nodeId # lastResult.toNodeId
  /\ nodes[lastResult.toNodeId].availableCores
       < nodes[lastResult.toNodeId].cpuCores

\* C2: a step that adds a pod never adds one whose cpuRequired exceeds the
\* availableCores its node had before the step, and every node always has
\* 0 <= availableCores <= total cores.
C2_NoOverbooking ==
  /\ [][\A p \in DOMAIN pods' \ DOMAIN pods :
          /\ pods'[p].nodeId \in DOMAIN nodes
          /\ pods'[p].cpuRequired <= nodes[pods'[p].nodeId].availableCores
       ]_vars
  /\ [](\A n \in DOMAIN nodes :
          /\ 0 <= nodes[n].availableCores
          /\ nodes[n].availableCores <= nodes[n].cpuCores)

\* addPod has just refused a pod on an existing node: it asked for more
\* than the node had left
C2_Witness ==
  /\ lastResult.op = "addPod"
  /\ lastResult.ret = "false"
  /\ lastResult.nodeId \in DOMAIN nodes

\* C3: a movePod that returns false leaves every node (availableCores, pod
\* set and the rest) and every pod (nodeId, status) as they were.
C3_MoveAtomicity ==
  [][(lastResult'.op = "movePod" /\ lastResult'.ret = "false")
       => (nodes' = nodes /\ nodeOrder' = nodeOrder /\ pods' = pods)]_vars

\* movePod has just failed for lack of room on the target: the pod is on
\* the source it was called with and the target exists
C3_Witness ==
  /\ lastResult.op = "movePod"
  /\ lastResult.ret = "false"
  /\ lastResult.podId \in DOMAIN pods
  /\ pods[lastResult.podId].nodeId = lastResult.nodeId
  /\ lastResult.toNodeId \in DOMAIN nodes
  /\ lastResult.toNodeId # lastResult.nodeId

\* C4: movePod(pod, from, to) returns false exactly when the pod does not
\* exist, or is not on from, or from or to is not registered, or to has
\* fewer availableCores than the pod requires; otherwise it returns true.
C4_MoveFailsExactlyWhen ==
  [][lastResult'.op = "movePod" =>
       LET p == lastResult'.podId
           f == lastResult'.nodeId
           t == lastResult'.toNodeId
       IN (lastResult'.ret = "false") <=>
            \/ p \notin DOMAIN pods
            \/ pods[p].nodeId # f
            \/ f \notin DOMAIN nodes
            \/ t \notin DOMAIN nodes
            \/ nodes[t].availableCores < pods[p].cpuRequired
    ]_vars

\* movePod has just succeeded onto a target that had exactly the cores the
\* pod requires
C4_Witness ==
  /\ lastResult.op = "movePod"
  /\ lastResult.ret = "true"
  /\ lastResult.nodeId # lastResult.toNodeId
  /\ nodes[lastResult.toNodeId].availableCores = 0

\* C5: a movePod(pod, from, to) that returns true debits the pod's
\* cpuRequired from to, credits it to from (on a move of a pod to the node
\* it is on, the two cancel), takes the pod out of from's pod set and puts
\* it into to's, sets the pod's nodeId to to and its status to running, and
\* changes nothing else of any node or pod.
C5_MoveEffect ==
  [][(lastResult'.op = "movePod" /\ lastResult'.ret = "true") =>
       LET p == lastResult'.podId
           f == lastResult'.nodeId
           t == lastResult'.toNodeId
           c == pods[p].cpuRequired
       IN /\ DOMAIN nodes' = DOMAIN nodes
          /\ nodeOrder' = nodeOrder
          /\ \A n \in DOMAIN nodes :
               /\ nodes'[n].availableCores =
                    nodes[n].availableCores
                      + (IF n = f THEN c ELSE 0) - (IF n = t THEN c ELSE 0)
               /\ SetOf(nodes'[n].pods) =
                    (SetOf(nodes[n].pods) \ (IF n = f THEN {p} ELSE {}))
                      \cup (IF n = t THEN {p} ELSE {})
               /\ nodes'[n].status = nodes[n].status
               /\ nodes'[n].lastHeartbeat = nodes[n].lastHeartbeat
               /\ nodes'[n].cpuCores = nodes[n].cpuCores
          /\ pods' = [pods EXCEPT ![p].nodeId = t, ![p].status = "running"]
    ]_vars

\* movePod has just moved a pod to another node, where it is running
C5_Witness ==
  /\ lastResult.op = "movePod"
  /\ lastResult.ret = "true"
  /\ lastResult.nodeId # lastResult.toNodeId
  /\ pods[lastResult.podId].nodeId = lastResult.toNodeId
  /\ pods[lastResult.podId].status = "running"
  /\ nodes[lastResult.nodeId].pods # <<>>

Qualifies(n, cpuRequired) ==
  /\ nodes[n].status = "healthy"
  /\ nodes[n].availableCores > 0
  /\ nodes[n].availableCores >= cpuRequired

\* C6: in every registry state and for every cpuRequired > 0, schedulePod
\* returns the first node in registration order that is healthy, has
\* availableCores > 0 and availableCores >= cpuRequired, and returns none
\* when no node qualifies.
C6_FirstFit ==
  \A c \in CpuRequiredInputs :
    LET r == schedulePod(NM, c)
    IN IF \E i \in 1..Len(nodeOrder) : Qualifies(nodeOrder[i], c)
       THEN \E i \in 1..Len(nodeOrder) :
              /\ r = nodeOrder[i]
              /\ Qualifies(nodeOrder[i], c)
              /\ \A j \in 1..(i - 1) : ~Qualifies(nodeOrder[j], c)
       ELSE r = Null

\* POST /pods has just placed a pod on the second node because the first,
\* still healthy, lacked the cores
C6_Witness ==
  /\ lastResult.op = "schedulePod"
  /\ lastResult.code = 201
  /\ Len(nodeOrder) >= 2
  /\ lastResult.nodeId = nodeOrder[2]
  /\ nodes[nodeOrder[1]].status = "healthy"
  /\ nodes[nodeOrder[1]].availableCores > 0

\* C7: a sweep sets every node that is healthy and whose heartbeat is older
\* than the staleness threshold to unhealthy; schedulePod never returns a
\* node that is not healthy, and a node leaves unhealthy for healthy only
\* by a heartbeat for it or its repair.
C7_Original ==
  [][/\ lastResult'.op = "checkNodeHealth" =>
          \A n \in DOMAIN nodes :
            (nodes[n].status = "healthy"
               /\ now - nodes[n].lastHeartbeat.t > UnhealthyTimeout)
              => nodes'[n].status = "unhealthy"
     /\ \A n \in DOMAIN nodes :
          (nodes[n].status = "unhealthy" /\ nodes'[n].status = "healthy")
            => (lastResult'.op \in {"heartbeat", "repair"}
                  /\ lastResult'.nodeId = n)
     /\ \A c \in CpuRequiredInputs :
          schedulePod(NM, c) # Null
            => nodes[schedulePod(NM, c)].status = "healthy"
    ]_vars

\* C8: a sweep leaves the status of every node that is unhealthy, failed or
\* draining as it is and moves none of its pods.
C8_Original ==
  [][lastResult'.op = "checkNodeHealth" =>
       \A n \in DOMAIN nodes :
         nodes[n].status \in {"unhealthy", "failed", "draining"}
           => /\ nodes'[n].status = nodes[n].status
              /\ nodes'[n].pods = nodes[n].pods
    ]_vars

\* C9: when POST /nodes/:id/simulate-failure finds a target for every pod
\* of the node, its result lists one operation per pod, each completed and
\* with toNode the node the pod is on afterwards.
C9_Original ==
  [][(/\ lastResult'.op = "simulateFailure"
      /\ lastResult'.nodeId \in DOMAIN nodes
      /\ nodes[lastResult'.nodeId].pods # <<>>
      /\ nodes'[lastResult'.nodeId].pods = <<>>)
       => LET before == nodes[lastResult'.nodeId].pods
              ops == lastResult'.recoveryOperations
          IN /\ Len(ops) = Len(before)
             /\ \A i \in 1..Len(ops) :
                  /\ ops[i].podId = before[i]
                  /\ ops[i].status = "COMPLETED"
                  /\ ops[i].toNode = pods'[before[i]].nodeId
                  /\ pods'[before[i]].nodeId # lastResult'.nodeId
    ]_vars

\* C10: when POST /nodes/:id/simulate-failure finds no target for a pod of
\* the node, its result lists an operation for that pod with status failed
\* and no toNode, the pod stays on the node with its cores debited, and
\* the handler answers without an error.
C10_Original ==
  [][(/\ lastResult'.op = "simulateFailure"
      /\ lastResult'.nodeId \in DOMAIN nodes)
       => \A p \in SetOf(nodes[lastResult'.nodeId].pods)
                     \cap SetOf(nodes'[lastResult'.nodeId].pods) :
            /\ lastResult'.code = 200
            /\ \E i \in 1..Len(lastResult'.recoveryOperations) :
                 /\ lastResult'.recoveryOperations[i].podId = p
                 /\ lastResult'.recoveryOperations[i].status = "FAILED"
                 /\ lastResult'.recoveryOperations[i].toNode = Null
            /\ pods'[p].nodeId = lastResult'.nodeId
            /\ nodes'[lastResult'.nodeId].availableCores
                 = nodes[lastResult'.nodeId].availableCores
    ]_vars

\* C11: when recovery of node N finds no target for a pod, the pod's status
\* becomes failed if N is failed (POST /nodes/:id/simulate-failure), and
\* stays what it was if N is draining (drain) or unhealthy (sweep).
C11_Original ==
  [][/\ (lastResult'.op = "simulateFailure"
           /\ lastResult'.nodeId \in DOMAIN nodes)
          => \A p \in SetOf(nodes[lastResult'.nodeId].pods)
                        \cap SetOf(nodes'[lastResult'.nodeId].pods) :
               pods'[p].status = "failed"
     /\ (lastResult'.op = "drain" /\ lastResult'.nodeId \in DOMAIN nodes)
          => \A p \in SetOf(nodes[lastResult'.nodeId].pods)
                        \cap SetOf(nodes'[lastResult'.nodeId].pods) :
               pods'[p].status = pods[p].status
     /\ lastResult'.op = "checkNodeHealth"
          => \A n \in DOMAIN nodes :
               \A p \in SetOf(nodes[n].pods) \cap SetOf(nodes'[n].pods) :
                 pods'[p].status = pods[p].status
    ]_vars

\* C12: every relocation made by POST /nodes/:id/simulate-failure, by
\* POST /nodes/:id/drain or by a health sweep is in the recovery log: right
\* after the step, getRecoveryStatus lists a COMPLETED operation with the
\* pod, the node it was on as fromNode and the node it is on as toNode.
C12_Original ==
  [][lastResult'.op \in {"simulateFailure", "drain", "checkNodeHealth"}
       => \A p \in DOMAIN pods :
            pods'[p].nodeId # pods[p].nodeId
              => \E op \in getRecoveryStatus(
                             [nodes |-> nodes', nodeOrder |-> nodeOrder',
                              pods |-> pods',
                              recoveryOperations |-> recoveryOperations'],
                             now') :
                   /\ op.podId = p
                   /\ op.fromNode = pods[p].nodeId
                   /\ op.toNode = pods'[p].nodeId
                   /\ op.status = "COMPLETED"
    ]_vars

\* C13: the recovery log only grows: every operation recorded in it before
\* a step is still in it, unchanged, after the step.
C13_Original ==
  [][\A p \in DOMAIN recoveryOperations :
       \E q \in DOMAIN recoveryOperations' :
         recoveryOperations'[q] = recoveryOperations[p]]_vars

\* C14: a heartbeat of node N changes the status of no pod that is assigned
\* to another node (and an entry for a pod id that does not exist creates
\* no pod).
C14_Original ==
  [][lastResult'.op = "heartbeat"
       => /\ DOMAIN pods' = DOMAIN pods
          /\ \A p \in DOMAIN pods :
               pods[p].nodeId # lastResult'.nodeId => pods'[p] = pods[p]
    ]_vars

\* C15: every pod's status is one of pending, running, failed.
C15_Original ==
  \A p \in DOMAIN pods : pods[p].status \in {"pending", "running", "failed"}

\* the same heartbeat recorded at time now and again d seconds later, in
\* the present registry state
SecondHeartbeatDelays == {TickStep}
Once(id, ps) == recordHeartbeat(NM, id, ps, now).m
Twice(id, ps, d) == recordHeartbeat(Once(id, ps), id, ps, now + d).m

\* C16 as stated: recording the same heartbeat twice in a row leaves every
\* node field and every pod field as the first recording left it, except
\* the node's lastHeartbeat.
C16_Original ==
  \A id \in NodeIdInputs : \A ps \in MapsOf(PodIdInputs) :
    \A d \in SecondHeartbeatDelays :
      LET m1 == Once(id, ps)
          m2 == Twice(id, ps, d)
      IN /\ m2.nodeOrder = m1.nodeOrder
         /\ m2.recoveryOperations = m1.recoveryOperations
         /\ m2.pods = m1.pods
         /\ DOMAIN m2.nodes = DOMAIN m1.nodes
         /\ \A n \in DOMAIN m1.nodes :
              m2.nodes[n] =
                [m1.nodes[n] EXCEPT !.lastHeartbeat =
                   IF n = id THEN m2.nodes[n].lastHeartbeat ELSE @]

\* C16, amended: recording the same heartbeat twice in a row leaves every
\* node field and every pod field as the first recording left it, except
\* the node's lastHeartbeat and the lastUpdated of the pods the heartbeat
\* reports, which take the time of the second recording.
C16_HeartbeatIdempotent ==
  \A id \in NodeIdInputs : \A ps \in MapsOf(PodIdInputs) :
    \A d \in SecondHeartbeatDelays :
      LET m1 == Once(id, ps)
          m2 == Twice(id, ps, d)
      IN /\ m2.nodeOrder = m1.nodeOrder
         /\ m2.recoveryOperations = m1.recoveryOperations
         /\ DOMAIN m2.pods = DOMAIN m1.pods
         /\ \A p \in DOMAIN m1.pods :
              m2.pods[p] =
                [m1.pods[p] EXCEPT !.lastUpdated =
                   IF id \in DOMAIN nodes /\ p \in DOMAIN ps
                   THEN newDate(now + d) ELSE @]
         /\ DOMAIN m2.nodes = DOMAIN m1.nodes
         /\ \A n \in DOMAIN m1.nodes :
              m2.nodes[n] =
                [m1.nodes[n] EXCEPT !.lastHeartbeat =
                   IF n = id THEN newDate(now + d) ELSE @]

\* a heartbeat has just been recorded for a registered node and has set the
\* status and lastUpdated of a pod it reports
C16_Witness ==
  /\ lastResult.op = "heartbeat"
  /\ lastResult.code = 200
  /\ nodes[lastResult.nodeId].lastHeartbeat = newDate(now)
  /\ \E p \in DOMAIN pods :
       /\ pods[p].lastUpdated = newDate(now)
       /\ pods[p].status = "report"

\* C17: addPod on a registered node whose status is not healthy returns
\* false and leaves every node and the pod registry as they were, even when
\* the node has the cores.
C17_Original ==
  [][(/\ lastResult'.op = "addPod"
      /\ lastResult'.nodeId \in DOMAIN nodes
      /\ nodes[lastResult'.nodeId].status # "healthy")
       => /\ lastResult'.ret = "false"
          /\ nodes' = nodes
          /\ pods' = pods
    ]_vars

\* C18: removePod (and DELETE /pods/:id) of an existing pod credits the
\* pod's cpuRequired to the node that owns it, takes the pod out of that
\* node's pod set and out of the pod registry and changes no other node or
\* pod; of an unknown pod id it fails and changes nothing.  And in every
\* state, an addPod that succeeds followed by removePod of the same pod
\* leaves the node's availableCores and pod set as they were.
C18_RemovePod ==
  /\ [][lastResult'.op \in {"removePod", "deletePod"} =>
          LET p == lastResult'.podId
          IN IF p \in DOMAIN pods
             THEN /\ lastResult'.ret = "true" \/ lastResult'.code = 200
                  /\ nodes' = [nodes EXCEPT
                                 ![pods[p].nodeId].availableCores =
                                    @ + pods[p].cpuRequired,
                                 ![pods[p].nodeId].pods = SetDelete(@, p)]
                  /\ p \in SetOf(nodes[pods[p].nodeId].pods)
                  /\ nodeOrder' = nodeOrder
                  /\ DOMAIN pods' = DOMAIN pods \ {p}
                  /\ \A q \in DOMAIN pods' : pods'[q] = pods[q]
             ELSE /\ lastResult'.ret = "false" \/ lastResult'.code = 404
                  /\ nodes' = nodes
                  /\ nodeOrder' = nodeOrder
                  /\ pods' = pods
       ]_vars
  /\ [](\A n \in NodeIdInputs : \A c \in CpuRequiredInputs :
          LET a == addPod(NM, n, podCount + 1, c, now)
              r == removePod(a.m, podCount + 1)
          IN a.ret =>
               /\ r.ret
               /\ r.m.nodes[n].availableCores = nodes[n].availableCores
               /\ r.m.nodes[n].pods = nodes[n].pods
               /\ r.m.pods = pods)

\* removePod has just removed one of two pods of a node: the node got the
\* cores of the removed pod back and still holds the other pod
C18_Witness ==
  /\ lastResult.op = "removePod"
  /\ lastResult.ret = "true"
  /\ lastResult.podId \notin DOMAIN pods
  /\ \E n \in DOMAIN nodes :
       /\ Len(nodes[n].pods) = 1
       /\ nodes[n].availableCores = nodes[n].cpuCores - 1
       /\ nodes[n].cpuCores = 2

\* C19: POST /pods for which no node qualifies answers with the explicit
\* insufficient-resources error (400), not with an internal error, and
\* leaves every node and every pod as they were.
C19_Original ==
  [][(lastResult'.op = "schedulePod" /\ lastResult'.podId = Null)
       => /\ lastResult'.code = 400
          /\ nodes' = nodes
          /\ pods' = pods
    ]_vars

\* C20: addNode under an id that is already registered fails with
\* DuplicateNodeId and leaves the registered node (total and available
\* cores, status, lastHeartbeat, pod set) and every pod as they were.
C20_Original ==
  [][(lastResult'.op = "addNode" /\ lastResult'.nodeId \in DOMAIN nodes)
       => /\ lastResult'.ret = "DuplicateNodeId"
          /\ nodes' = nodes
          /\ pods' = pods
    ]_vars

\* C21: every registered node has more than zero total cores, and a
\* POST /nodes whose cpu_cores parses to an integer <= 0 creates no node.
C21_Original ==
  /\ [](\A n \in DOMAIN nodes : nodes[n].cpuCores > 0)
  /\ [][lastResult'.op = "registerNode"
          => \A n \in DOMAIN nodes' \ DOMAIN nodes : nodes'[n].cpuCores > 0
       ]_vars

\* C22: when docker.createContainer or container.start fails during
\* POST /nodes, no step of that request, from its start to the 500 answer,
\* changes the registry, whatever runs between its steps: the registry
\* holds no entry for the node and differs from what it was before the
\* call only by what the other operations did.
C22_ProvisioningFailure ==
  [][(\/ lastResult'.op = "provisioning"
      \/ (lastResult'.op = "registerNode" /\ lastResult'.code = 500))
       => /\ nodes' = nodes
          /\ nodeOrder' = nodeOrder
          /\ pods' = pods
          /\ recoveryOperations' = recoveryOperations
          /\ timers' = timers
    ]_vars

\* container.start has just failed for a request that was in flight while
\* the registry already held a node with a pod
C22_Witness ==
  /\ lastResult.op = "registerNode"
  /\ lastResult.code = 500
  /\ lastResult.ret = "start"
  /\ pods # <<>>

\* C23: POST /nodes/:id/drain of a registered node N answers 200 and sets
\* N to draining; every pod it reports as evacuated was on N, is afterwards
\* on the node reported for it, which is not N and was healthy; and the
\* evacuated pods plus the pods remaining on N are the pods N had before.
C23_Drain ==
  [][(lastResult'.op = "drain" /\ lastResult'.nodeId \in DOMAIN nodes) =>
       LET N == lastResult'.nodeId
           ev == lastResult'.evacuatedPods
       IN /\ lastResult'.code = 200
          /\ nodes'[N].status = "draining"
          /\ \A i \in 1..Len(ev) :
               /\ ev[i].id \in SetOf(nodes[N].pods)
               /\ ev[i].newNodeId # N
               /\ ev[i].newNodeId \in DOMAIN nodes
               /\ nodes[ev[i].newNodeId].status = "healthy"
               /\ pods'[ev[i].id].nodeId = ev[i].newNodeId
               /\ ev[i].id \in SetOf(nodes'[ev[i].newNodeId].pods)
               /\ \A j \in 1..Len(ev) : ev[j].id = ev[i].id => j = i
          /\ lastResult'.remainingPods = Len(nodes'[N].pods)
          /\ Len(ev) + lastResult'.remainingPods = Len(nodes[N].pods)
          /\ SetOf(nodes'[N].pods) \cup {ev[i].id : i \in 1..Len(ev)}
               = SetOf(nodes[N].pods)
    ]_vars

\* a drain has just evacuated a pod to another node
C23_Witness ==
  /\ lastResult.op = "drain"
  /\ lastResult.code = 200
  /\ Len(lastResult.evacuatedPods) >= 1
  /\ pods[lastResult.evacuatedPods[1].id].nodeId
       = lastResult.evacuatedPods[1].newNodeId
  /\ nodes[lastResult.nodeId].status = "draining"

\* C24: a node that has been drained receives no new pod and does not
\* return to healthy, whatever runs, heartbeats of the node included,
\* until POST /nodes/:id/repair-complete returns it to service.
C24_Original ==
  [][\A n \in DOMAIN nodes :
       nodes[n].status = "draining"
         => /\ \A p \in DOMAIN pods' :
                 pods'[p].nodeId = n
                   => (p \in DOMAIN pods /\ pods[p].nodeId = n)
            /\ nodes'[n].status = "healthy"
                 => (lastResult'.op = "repair" /\ lastResult'.nodeId = n)
    ]_vars

\* C25: POST /nodes/:id/repair-complete of a registered node answers 200
\* with the node's availableCores and the cluster status, having set the
\* node healthy with a fresh lastHeartbeat, so that schedulePod considers
\* it again.
C25_Original ==
  [][(lastResult'.op = "repair" /\ lastResult'.nodeId \in DOMAIN nodes)
       => /\ lastResult'.code = 200
          /\ nodes'[lastResult'.nodeId].status = "healthy"
          /\ nodes'[lastResult'.nodeId].lastHeartbeat.t = now
    ]_vars

\* C26: POST /nodes/:id/repair-complete moves no pod: every pod's nodeId,
\* every node's pod set and every node's availableCores are after it what
\* they were before it.
C26_RepairMovesNoPod ==
  [][lastResult'.op = "repair"
       => /\ pods' = pods
          /\ nodeOrder' = nodeOrder
          /\ DOMAIN nodes' = DOMAIN nodes
          /\ \A n \in DOMAIN nodes :
               /\ nodes'[n].pods = nodes[n].pods
               /\ nodes'[n].availableCores = nodes[n].availableCores
               /\ nodes'[n].cpuCores = nodes[n].cpuCores
    ]_vars

\* the first node has just been repaired; it is empty with the cores for a
\* pod that sits on another node, and the repair did not pull it back
C26_Witness ==
  /\ lastResult.op = "repair"
  /\ Len(nodeOrder) >= 2
  /\ lastResult.nodeId = nodeOrder[1]
  /\ nodes[nodeOrder[1]].status = "healthy"
  /\ nodes[nodeOrder[1]].pods = <<>>
  /\ \E p \in DOMAIN pods :
       /\ pods[p].nodeId # nodeOrder[1]
       /\ pods[p].cpuRequired <= nodes[nodeOrder[1]].availableCores

\* C27: getNodes (GET /nodes) returns the node summaries without raising
\* in every reachable state.
C27_Original == ~getNodesThrows(NM)

\* C28: a node's status goes from unhealthy, failed or draining to healthy
\* only in a step that is a heartbeat for that node or the repair of that
\* node.
C28_HealthyOnlyByHeartbeatOrRepair ==
  [][\A n \in DOMAIN nodes :
       (nodes[n].status # "healthy" /\ nodes'[n].status = "healthy")
         => /\ lastResult'.op \in {"heartbeat", "repair"}
            /\ lastResult'.nodeId = n
    ]_vars

\* a heartbeat of the first node has just been recorded; the node is healthy
\* and empty although it has the cores for a pod that sits on another node
\* (the pod was moved off it when it was not healthy)
C28_Witness ==
  /\ lastResult.op = "heartbeat"
  /\ lastResult.code = 200
  /\ Len(nodeOrder) >= 2
  /\ lastResult.nodeId = nodeOrder[1]
  /\ nodes[nodeOrder[1]].status = "healthy"
  /\ nodes[nodeOrder[1]].pods = <<>>
  /\ \E p \in DOMAIN pods :
       /\ pods[p].nodeId # nodeOrder[1]
       /\ pods[p].status = "running"
       /\ pods[p].cpuRequired <= nodes[nodeOrder[1]].availableCores

\* C29: a pod created by POST /pods is pending right after its creation,
\* and every pod whose start-up timer is pending is eventually running or
\* deleted (its timer callback, once run, sets it running if it exists).
C29_PodStartUp ==
  /\ [][(lastResult'.op = "schedulePod" /\ lastResult'.code = 201)
          => /\ lastResult'.podId \notin DOMAIN pods
             /\ pods'[lastResult'.podId].status = "pending"
             /\ lastResult'.podId \in DOMAIN timers'
             /\ timers'[lastResult'.podId].due = now + PodStartDelay
       ]_vars
  /\ [][\A p \in DOMAIN pods' :
          (lastResult'.op = "podTimer" /\ lastResult'.podId = p)
            => pods'[p].status = "running"]_vars
  /\ \A p \in PodIdInputs :
       (p \in DOMAIN pods /\ p \in DOMAIN timers)
         ~> (p \notin DOMAIN pods \/ pods[p].status = "running")

\* the start-up timer of a pod has just fired, five seconds after the pod
\* was created, and the pod is running
C29_Witness ==
  /\ lastResult.op = "podTimer"
  /\ lastResult.podId \in DOMAIN pods
  /\ pods[lastResult.podId].status = "running"
  /\ lastResult.podId \notin DOMAIN timers
  /\ now = PodStartDelay

\* C30: in every reachable state each pod's nodeId is a registered node
\* whose pod set holds the pod, no other node's pod set holds it, every id
\* in a node's pod set is a pod of the registry (once only), and no step
\* removes a node from the registry.
C30_ReferentialIntegrity ==
  /\ [](/\ \A p \in DOMAIN pods :
             /\ pods[p].nodeId \in DOMAIN nodes
             /\ \A n \in DOMAIN nodes :
                  (p \in SetOf(nodes[n].pods)) <=> (n = pods[p].nodeId)
        /\ \A n \in DOMAIN nodes :
             /\ SetOf(nodes[n].pods) \subseteq DOMAIN pods
             /\ Cardinality(SetOf(nodes[n].pods)) = Len(nodes[n].pods)
        /\ SetOf(nodeOrder) = DOMAIN nodes)
  /\ [][DOMAIN nodes \subseteq DOMAIN nodes']_vars

\* DELETE /pods/:id has just deleted one pod while another one remains
C30_Witness ==
  /\ lastResult.op = "deletePod"
  /\ lastResult.code = 200
  /\ lastResult.podId \notin DOMAIN pods
  /\ \A n \in DOMAIN nodes : lastResult.podId \notin SetOf(nodes[n].pods)
  /\ pods # <<>>

\* C31: the pods of a node are enumerated for recovery in the order of
\* their creation (pod ids are handed out in creation order), pods that
\* were moved onto the node included.
C31_Original ==
  \A n \in DOMAIN nodes :
    LET ps == getPodsOnNode(NM, n)
    IN \A i \in 1..Len(ps) : \A j \in 1..Len(ps) :
         i < j => ps[i].id < ps[j].id

\* C32: POST /nodes/:id/simulate-failure of a node N that is already failed
\* runs the relocation loop again: afterwards no pod is left on N for which
\* a healthy node has the cores, every pod that left N is running on a
\* node that was healthy, and N has been credited the cores of the pods
\* that left.
C32_Retrigger ==
  [][(/\ lastResult'.op = "simulateFailure"
      /\ lastResult'.nodeId \in DOMAIN nodes
      /\ nodes[lastResult'.nodeId].status = "failed")
       => LET N == lastResult'.nodeId
              gone == SetOf(nodes[N].pods) \ SetOf(nodes'[N].pods)
          IN /\ SetOf(nodes'[N].pods) \subseteq SetOf(nodes[N].pods)
             /\ \A p \in SetOf(nodes'[N].pods) :
                  ~\E M \in DOMAIN nodes :
                     /\ nodes'[M].status = "healthy"
                     /\ nodes'[M].availableCores >= pods[p].cpuRequired
             /\ \A p \in gone :
                  /\ pods'[p].nodeId # N
                  /\ nodes[pods'[p].nodeId].status = "healthy"
                  /\ pods'[p].status = "running"
             /\ nodes'[N].availableCores =
                  nodes[N].availableCores + SumCpu(gone)
    ]_vars

\* simulate-failure has just emptied the first node, which is failed and
\* has all its cores back; its pod, created on it, runs on the second
C32_Witness ==
  /\ lastResult.op = "simulateFailure"
  /\ Len(nodeOrder) >= 2
  /\ lastResult.nodeId = nodeOrder[1]
  /\ nodes[nodeOrder[1]].status = "failed"
  /\ nodes[nodeOrder[1]].pods = <<>>
  /\ nodes[nodeOrder[1]].availableCores = nodes[nodeOrder[1]].cpuCores
  /\ \E p \in DOMAIN pods :
       /\ pods[p].nodeId = nodeOrder[2]
       /\ pods[p].status = "running"
       /\ p \in DOMAIN timers
       /\ timers[p].nodeId = nodeOrder[1]

\* C35: a node's lastHeartbeat changes only in a step that registers it,
\* records a heartbeat for it or repairs it; every other operation leaves
\* every node's lastHeartbeat as it was.
C35_Original ==
  [][\A n \in DOMAIN nodes \cap DOMAIN nodes' :
       nodes'[n].lastHeartbeat # nodes[n].lastHeartbeat
         => /\ lastResult'.op \in {"registerNode", "heartbeat", "repair"}
            /\ lastResult'.nodeId = n
    ]_vars

\* C37: a health sweep marks unhealthy every healthy node whose
\* lastHeartbeat was stored by repair-complete and is older than the
\* staleness threshold.
C37_Original ==
  [][lastResult'.op = "checkNodeHealth" =>
       \A n \in DOMAIN nodes :
         (/\ nodes[n].status = "healthy"
          /\ nodes[n].lastHeartbeat.kind = "String"
          /\ now - nodes[n].lastHeartbeat.t > UnhealthyTimeout)
           => nodes'[n].status = "unhealthy"
    ]_vars

\* C38: a health sweep never moves a pod onto a node whose heartbeat was
\* already stale when the sweep began and which the sweep marks unhealthy.
C38_Original ==
  [][lastResult'.op = "checkNodeHealth" =>
       \A p \in DOMAIN pods \cap DOMAIN pods' :
         pods'[p].nodeId # pods[p].nodeId
           => LET target == nodes[pods'[p].nodeId]
              IN ~(/\ lessThan(target.lastHeartbeat, now - UnhealthyTimeout)
                   /\ target.status # "unhealthy"
                   /\ nodes'[pods'[p].nodeId].status = "unhealthy")
    ]_vars

\* C39: in every registry state and for every positive cpuRequired,
\* NodeManager.findAvailableNodeForPod and PodScheduler.schedulePod return
\* the same node id, or both return none.
C39_FirstFitsAgree ==
  \A c \in CpuRequiredInputs :
    findAvailableNodeForPod(NM, c) = schedulePod(NM, c)

\* the first node has the cores but is not healthy, and both first fits
\* pass over it and return the second node
C39_Witness ==
  /\ Len(nodeOrder) = 2
  /\ nodes[nodeOrder[1]].status # "healthy"
  /\ nodes[nodeOrder[1]].availableCores >= 1
  /\ findAvailableNodeForPod(NM, 1) = nodeOrder[2]
  /\ schedulePod(NM, 1) = nodeOrder[2]

\* C34: when handling one node raises an error during a health sweep, every
\* other node that was healthy and stale when the sweep began is still
\* marked unhealthy by that sweep.
C34_Original ==
  [][lastResult'.op = "checkNodeHealth" =>
       \A n \in DOMAIN nodes :
         (/\ nodes[n].status = "healthy"
          /\ lessThan(nodes[n].lastHeartbeat, now - UnhealthyTimeout))
           => nodes'[n].status = "unhealthy"
    ]_vars

\* C36: a heartbeat sent by the agent of a registered node is accepted and
\* refreshes that node's lastHeartbeat; it is never answered 404.
C36_Original ==
  lastResult.op = "sendHeartbeat"
    => /\ lastResult.code = 200
       /\ nodes[lastResult.nodeId].lastHeartbeat = newDate(now)

\* C33: a heartbeat that fails is retried after 2 s, and its k-th retry
\* that fails is retried after twice the delay of the one before (4, 8, 16,
\* 32 s), until it has had 5 retries and is given up; no delay exceeds 60 s.
C33_Original ==
  ~agent.last.ok =>
     /\ agent.last.retryDelay <= MaxRetryDelay
     /\ IF agent.last.retries < MAX_RETRY_ATTEMPTS
        THEN agent.last.retryDelay = Pow2(agent.last.retries + 1)
        ELSE agent.last.retryDelay = 0

====
